---- MODULE Spec2Model ----
(***************************************************************************)
(* Model of package tagged (src/tagged.go): generic tagged unions for Go.  *)
(*                                                                         *)
(* A union type is declared by a buffer kind (a fixed [N]byte array or     *)
(* `any`) and a struct of As fields, one per alternative.  Fields derives  *)
(* the accessor bundle; As.New / As.Get / As.Lookup build and read union   *)
(* values through unsafe pointer arithmetic; FieldOf and Interface inspect *)
(* the live tag.  Memory is modelled at byte level (amd64 layout): a union *)
(* value is the sequence of bytes of struct{tag int16; any bool; buf Buf}, *)
(* a value of an alternative is the sequence of bytes of its               *)
(* representation.                                                         *)
(***************************************************************************)
EXTENDS Integers, Sequences, FiniteSets, TLC

VARIABLES decl, bundle, u, built, res, heap, held, pc, cur, at, arg

vars == <<decl, bundle, u, built, res, heap, held, pc, cur, at, arg>>

seqVars == <<decl, bundle, u, built, res>>

concVars == <<heap, held, pc, cur, at, arg>>

(***************************************************************************)
(* Bounds of the model.                                                    *)
(***************************************************************************)
\* longest explicitly enumerated list of alternatives
MaxAlts == 2

\* values of an alternative: byte patterns 0..MaxByte (0 is the zero value)
MaxByte == 1

\* concurrent callers in the derivation model
MaxProcs == 2

(***************************************************************************)
(* Program constants.                                                      *)
(***************************************************************************)
\* math.MaxInt32, the bound values() tests the field index against
MaxInt32 == 2147483647

\* number of values of the int16 tag
Int16Mod == 65536

\* the largest int16
MaxInt16 == 32767

\* the documented limit on the number of fields
MaxFields == 65535

\* marker of the buffer kind `any` (no byte size)
AnyBuf == 0

\* unsafe.Offsetof(union.buf) in struct{tag int16; any bool; buf [N]byte}
ArrayBufOffset == 3

\* unsafe.Offsetof(union.buf) in struct{tag int16; any bool; buf any}
AnyBufOffset == 8

\* byte values
ByteMod == 256

\* the fixed buffer kinds of the constraint `buffer` that the model declares
BufSizes == {4, 16}

\* byte written where a read runs past the end of a local variable
JunkBytes == {0, 255}

(***************************************************************************)
(* Go types of the alternatives: kind, element types, size and alignment   *)
(* as reflect and unsafe report them on a 64-bit target.                   *)
(***************************************************************************)
TypeNames ==
  { "bool", "float32", "float64", "string", "*int", "[]byte", "interface{}",
    "func()", "struct{}", "struct{float32;bool}", "struct{bool;*int}",
    "[2]float32", "[2]struct{bool;*int}", "struct{[2]struct{bool;*int}}" }

\* the alternative types the enumerated declarations draw from
AltTypes ==
  { "bool", "float32", "float64", "string", "*int",
    "struct{[2]struct{bool;*int}}" }

KindOf(t) ==
  CASE t = "bool" -> "Bool"
    [] t = "float32" -> "Float32"
    [] t = "float64" -> "Float64"
    [] t = "string" -> "String"
    [] t = "*int" -> "Ptr"
    [] t = "[]byte" -> "Slice"
    [] t = "interface{}" -> "Interface"
    [] t = "func()" -> "Func"
    [] t \in {"struct{}", "struct{float32;bool}", "struct{bool;*int}",
              "struct{[2]struct{bool;*int}}"} -> "Struct"
    [] t \in {"[2]float32", "[2]struct{bool;*int}"} -> "Array"

KindTab == [t \in TypeNames |-> KindOf(t)]

Kind(t) == KindTab[t]

StructFields(t) ==
  CASE t = "struct{}" -> <<>>
    [] t = "struct{float32;bool}" -> <<"float32", "bool">>
    [] t = "struct{bool;*int}" -> <<"bool", "*int">>
    [] t = "struct{[2]struct{bool;*int}}" -> <<"[2]struct{bool;*int}">>
    [] OTHER -> <<>>

Elem(t) ==
  CASE t = "[2]float32" -> "float32"
    [] t = "[2]struct{bool;*int}" -> "struct{bool;*int}"
    [] OTHER -> "struct{}"

ArrayLen(t) == IF Kind(t) = "Array" THEN 2 ELSE 0

RoundUp(x, a) == ((x + a - 1) \div a) * a

Max(a, b) == IF a > b THEN a ELSE b

RECURSIVE alignOf(_)
alignOf(t) ==
  CASE Kind(t) = "Bool" -> 1
    [] Kind(t) = "Float32" -> 4
    [] Kind(t) \in {"Float64", "String", "Ptr", "Slice", "Interface", "Func"} -> 8
    [] Kind(t) = "Array" -> alignOf(Elem(t))
    [] Kind(t) = "Struct" ->
         LET RECURSIVE widest(_)
             widest(k) == IF k = 0 THEN 1
                          ELSE Max(alignOf(StructFields(t)[k]), widest(k - 1))
         IN widest(Len(StructFields(t)))

AlignTab == [t \in TypeNames |-> alignOf(t)]

AlignOf(t) == AlignTab[t]

RECURSIVE sizeOf(_)
sizeOf(t) ==
  CASE Kind(t) = "Bool" -> 1
    [] Kind(t) = "Float32" -> 4
    [] Kind(t) \in {"Float64", "Ptr", "Func"} -> 8
    [] Kind(t) \in {"String", "Interface"} -> 16
    [] Kind(t) = "Slice" -> 24
    [] Kind(t) = "Array" -> ArrayLen(t) * sizeOf(Elem(t))
    [] Kind(t) = "Struct" ->
         LET RECURSIVE end(_)
             end(k) == IF k = 0 THEN 0
                       ELSE RoundUp(end(k - 1), AlignOf(StructFields(t)[k]))
                              + sizeOf(StructFields(t)[k])
         IN RoundUp(end(Len(StructFields(t))), AlignOf(t))

SizeTab == [t \in TypeNames |-> sizeOf(t)]

SizeOf(t) == SizeTab[t]

(***************************************************************************)
(* hasPointers (src/tagged.go:195): the kinds the function lists, structs  *)
(* by their fields, arrays by their element.                               *)
(***************************************************************************)
RECURSIVE hasPointers(_)
hasPointers(t) ==
  CASE Kind(t) \in {"Ptr", "Chan", "Map", "Interface", "Slice", "Func",
                    "UnsafePointer"} -> TRUE
    [] Kind(t) = "Struct" ->
         \E k \in 1..Len(StructFields(t)) : hasPointers(StructFields(t)[k])
    [] Kind(t) = "Array" -> hasPointers(Elem(t))
    [] OTHER -> FALSE

(***************************************************************************)
(* Field tokens and union values.                                          *)
(***************************************************************************)
\* Field[Union]{tag, set, any}; the zero value is the uninitialized token
MkField(tag, set, any) == [tag |-> tag, set |-> set, any |-> any]

ZeroField == MkField(0, 0, FALSE)

\* int16(i): conversion of an int to the 16-bit signed tag
Int16(i) ==
  LET m == i % Int16Mod IN IF m > MaxInt16 THEN m - Int16Mod ELSE m

\* the two bytes of an int16 in memory, low byte first
TagBytes(tag) ==
  LET w == tag % Int16Mod IN <<w % ByteMod, w \div ByteMod>>

\* the nil interface value, and an interface value holding v of type t
NoBox == [typ |-> "nil", val |-> <<>>]

Box(t, v) == [typ |-> t, val |-> v]

\* unsafe.Offsetof(union.buf) for the buffer kind
OffsetofBuf(buf) == IF buf = AnyBuf THEN AnyBufOffset ELSE ArrayBufOffset

\* bytes of the union value kept as raw memory: the whole struct for a fixed
\* buffer, the header up to the interface word for `any`
UnionMemSize(buf) ==
  IF buf = AnyBuf THEN AnyBufOffset ELSE RoundUp(ArrayBufOffset + buf, 2)

\* unsafe.Sizeof(UnionMethods[Value, Value]), the local New writes into
LocalSize(t) ==
  RoundUp(RoundUp(ArrayBufOffset, AlignOf(t)) + SizeOf(t), Max(2, AlignOf(t)))

\* the zero value of a union type
ZeroUnion(buf) == [mem |-> [k \in 1..UnionMemSize(buf) |-> 0], box |-> NoBox]

\* union.tag and union.any read from the union's memory
TagOf(un) == Int16(un.mem[1] + ByteMod * un.mem[2])

AnyOf(un) == un.mem[3] # 0

\* the zero value of type t and the values the model passes to New
Zero(t) == [k \in 1..SizeOf(t) |-> 0]

Values(t) == { [k \in 1..SizeOf(t) |-> (b * k) % ByteMod] : b \in 0..MaxByte }

(***************************************************************************)
(* As.New (src/tagged.go:129).  junk is what the final read finds past     *)
(* the end of the local variable when the union type is larger than it.    *)
(***************************************************************************)
\* variant: the value is assigned to the buf field of the local instead of
\* being written at offset f.set
NewIntoBufField(f, t, value, buf, junk) ==
  IF f.set = 0 THEN [status |-> "uninitialized", un |-> ZeroUnion(buf)]
  ELSE
    LET local == LocalSize(t)
        size == SizeOf(t)
        tag == TagBytes(f.tag)
        off == RoundUp(ArrayBufOffset, AlignOf(t))
    IN
    [status |-> "ok",
     un |-> [mem |-> [k \in 1..UnionMemSize(buf) |->
                        IF k > local THEN junk
                        ELSE IF k > off /\ k <= off + size THEN value[k - off]
                        ELSE IF k <= 2 THEN tag[k]
                        ELSE 0],
             box |-> NoBox]]

New(f, t, value, buf, junk) ==
  IF f.set = 0 THEN [status |-> "uninitialized", un |-> ZeroUnion(buf)]
  ELSE IF f.any THEN
    [status |-> "ok",
     un |-> [mem |-> [k \in 1..UnionMemSize(buf) |->
                        IF k <= 2 THEN TagBytes(f.tag)[k]
                        ELSE IF k = 3 THEN 1 ELSE 0],
             box |-> Box(t, value)]]
  ELSE
    LET local == LocalSize(t)
        size == SizeOf(t)
        tag == TagBytes(f.tag)
    IN
    [status |-> "ok",
     un |-> [mem |-> [k \in 1..UnionMemSize(buf) |->
                        IF k > local THEN junk
                        ELSE IF k > f.set /\ k <= f.set + size
                          THEN value[k - f.set]
                        ELSE IF k <= 2 THEN tag[k]
                        ELSE 0],
             box |-> NoBox]]

(***************************************************************************)
(* As.Lookup (src/tagged.go:158) and As.Get (src/tagged.go:148).           *)
(***************************************************************************)
\* variant: no test of f.set, the zero-value accessor reads at offset 0
LookupUnchecked(f, t, un) ==
  IF TagOf(un) # f.tag THEN [status |-> "ok", val |-> Zero(t), found |-> FALSE]
  ELSE [status |-> "ok",
        val |-> [k \in 1..SizeOf(t) |->
                   IF f.set + k <= Len(un.mem) THEN un.mem[f.set + k] ELSE 0],
        found |-> TRUE]

Lookup(f, t, un) ==
  IF f.set = 0 THEN [status |-> "uninitialized", val |-> Zero(t), found |-> FALSE]
  ELSE IF f.any THEN
    IF TagOf(un) # f.tag THEN [status |-> "ok", val |-> Zero(t), found |-> FALSE]
    ELSE IF un.box.typ # t
      THEN [status |-> "interface conversion", val |-> Zero(t), found |-> FALSE]
    ELSE [status |-> "ok", val |-> un.box.val, found |-> TRUE]
  ELSE
    IF TagOf(un) # f.tag THEN [status |-> "ok", val |-> Zero(t), found |-> FALSE]
    ELSE [status |-> "ok",
          val |-> [k \in 1..SizeOf(t) |->
                     IF f.set + k <= Len(un.mem) THEN un.mem[f.set + k] ELSE 0],
          found |-> TRUE]

\* variant: the outcome of Lookup is returned without the test of ok
GetUnchecked(f, t, un) == Lookup(f, t, un)

Get(f, t, un) ==
  LET r == Lookup(f, t, un) IN
  IF r.status # "ok" THEN r
  ELSE IF ~r.found THEN [status |-> "wrong tag", val |-> Zero(t), found |-> FALSE]
  ELSE r

(***************************************************************************)
(* FieldOf (src/tagged.go:86) over UnionMethods.getTag (src/tagged.go:220).*)
(***************************************************************************)
getTag(un, buf) == MkField(TagOf(un), OffsetofBuf(buf), AnyOf(un))

FieldOf(un, buf) ==
  LET tag == getTag(un, buf) IN MkField(tag.tag, tag.set, tag.any)

(***************************************************************************)
(* Declarations.  A declaration is the buffer kind, the number n of        *)
(* declared alternatives and their types.  Up to MaxAlts alternatives are  *)
(* enumerated in full.  A wide declaration has a number of alternatives    *)
(* around the limits of the 16-bit tag; the model follows its alternatives *)
(* at ProbeIdx, the ones callers use.                                      *)
(***************************************************************************)
WideCounts == {32768, 32769, 65535, 65536, 65537}

ProbeIdx == {0, 1, 32767, 32768, 65535, 65536}

Tracked(n) == IF n <= MaxAlts THEN 0..(n - 1) ELSE {i \in ProbeIdx : i < n}

WideType(i) ==
  IF i <= MaxInt16 THEN "float32" ELSE IF i <= MaxFields THEN "bool" ELSE "float64"

\* the type of alternative i of declaration d
TypeOf(d, i) == IF i \in DOMAIN d.typ THEN d.typ[i] ELSE WideType(i)

SmallDecls ==
  UNION { { [buf |-> b, n |-> m, typ |-> ty] :
              b \in BufSizes \cup {AnyBuf}, ty \in [0..(m - 1) -> AltTypes] } :
          m \in 0..MaxAlts }

WideDecls ==
  { [buf |-> 16, n |-> n, typ |-> [i \in Tracked(n) |-> WideType(i)]] :
      n \in WideCounts }

Decls == SmallDecls \cup WideDecls

\* the zero value of the struct of As fields (var values Values)
ZeroValues(d) == [i \in Tracked(d.n) |-> ZeroField]

(***************************************************************************)
(* As.load (src/tagged.go:177): the checks of one alternative and the      *)
(* token written into the field.                                           *)
(***************************************************************************)
load(t, tag, direct, buf, offset) ==
  IF hasPointers(t) /\ direct
    THEN [status |-> "contains pointers", field |-> ZeroField]
  ELSE IF direct /\ SizeOf(t) > buf
    THEN [status |-> "buffer too small", field |-> ZeroField]
  ELSE [status |-> "ok", field |-> MkField(tag, offset, ~direct)]

\* reflect.TypeOf(buffer): the nil Type for the nil interface of Buf = any
BufferKind(buf) == IF buf = AnyBuf THEN "nil" ELSE "Array"

\* the guard of the loop body of values (src/tagged.go:243)
TooMany(i) == i > MaxInt32

(***************************************************************************)
(* UnionMethods.values (src/tagged.go:237): Kind() of the nil Type faults  *)
(* before the loop; the loop stops at the first alternative that faults.   *)
(***************************************************************************)
values(d) ==
  IF BufferKind(d.buf) = "nil"
    THEN [status |-> "nil dereference", fields |-> ZeroValues(d)]
  ELSE
    LET direct == BufferKind(d.buf) = "Array"
        ld(i) == load(TypeOf(d, i), Int16(i), direct, d.buf, OffsetofBuf(d.buf))
        bad == {i \in Tracked(d.n) : TooMany(i) \/ ld(i).status # "ok"}
        first == CHOOSE i \in bad : \A j \in bad : i <= j
    IN IF bad # {}
         THEN [status |-> IF TooMany(first) THEN "too many fields"
                          ELSE ld(first).status,
               fields |-> ZeroValues(d)]
       ELSE [status |-> "ok", fields |-> [i \in Tracked(d.n) |-> ld(i).field]]

\* Fields (src/tagged.go:111)
Fields(d) == values(d)

(***************************************************************************)
(* UnionMethods.Interface (src/tagged.go:252) with As.get                  *)
(* (src/tagged.go:191): the alternative is found by the live tag in a      *)
(* fresh Values, loaded, and read with Get.                                *)
(***************************************************************************)
Interface(un, d) ==
  LET i == TagOf(un)
      none == [status |-> "nil dereference", typ |-> "nil", val |-> <<>>]
  IN
  IF BufferKind(d.buf) = "nil" THEN none
  ELSE IF i < 0 \/ i >= d.n
    THEN [none EXCEPT !.status = "index out of range"]
  ELSE
    LET direct == BufferKind(d.buf) = "Array"
        t == TypeOf(d, i)
        ld == load(t, Int16(i), direct, d.buf, OffsetofBuf(d.buf))
        r == Get(ld.field, t, un)
    IN IF ld.status # "ok" THEN [none EXCEPT !.status = ld.status]
       ELSE IF r.status # "ok" THEN [none EXCEPT !.status = r.status]
       ELSE [status |-> "ok", typ |-> t, val |-> r.val]

(***************************************************************************)
(* The sequential program: one union type, the caller-held bundle          *)
(* (var FloatWith), one union variable u, and the outcome res of the last  *)
(* call.  built records the accessor index and value of the New that       *)
(* produced u (idx = -1 for the zero value).                               *)
(***************************************************************************)
NoRes ==
  [op |-> "none", idx |-> -1, f |-> ZeroField, status |-> "ok", val |-> <<>>,
   found |-> FALSE, tok |-> ZeroField, typ |-> "nil"]

\* the concurrent callers of SpecConc, absent from the sequential program
ConcIdle ==
  /\ heap = <<>>
  /\ held = <<>>
  /\ pc = <<>>
  /\ cur = <<>>
  /\ at = <<>>
  /\ arg = <<>>

Init ==
  /\ decl \in Decls
  /\ bundle = ZeroValues(decl)
  /\ u = ZeroUnion(decl.buf)
  /\ built = [idx |-> -1, val |-> <<>>]
  /\ res = NoRes
  /\ ConcIdle

\* var FloatWith = tagged.Fields(Float{})
DoFields ==
  LET r == Fields(decl) IN
  /\ bundle' = IF r.status = "ok" THEN r.fields ELSE bundle
  /\ res' = [NoRes EXCEPT !.op = "Fields", !.status = r.status]
  /\ UNCHANGED <<decl, u, built, concVars>>

\* the accessors a caller can use for alternative i: the bundle's, or a
\* zero-value As of the same type (var a tagged.As[U, T])
Accessors(i) == {bundle[i], ZeroField}

\* what the read of New's result can find past the end of its local variable
JunkFor(t, buf) ==
  IF UnionMemSize(buf) > LocalSize(t) THEN JunkBytes ELSE {0}

\* u = f.New(value)
DoNew(i, f, value, junk) ==
  LET r == New(f, TypeOf(decl, i), value, decl.buf, junk) IN
  /\ u' = IF r.status = "ok" THEN r.un ELSE u
  /\ built' = IF r.status = "ok" THEN [idx |-> i, val |-> value] ELSE built
  /\ res' = [NoRes EXCEPT !.op = "New", !.idx = i, !.f = f, !.status = r.status,
                          !.val = IF r.status = "ok" THEN value ELSE <<>>]
  /\ UNCHANGED <<decl, bundle, concVars>>

\* f.Get(u)
DoGet(i, f) ==
  LET r == Get(f, TypeOf(decl, i), u) IN
  /\ res' = [NoRes EXCEPT !.op = "Get", !.idx = i, !.f = f, !.status = r.status,
                          !.val = r.val, !.found = r.found]
  /\ UNCHANGED <<decl, bundle, u, built, concVars>>

\* f.Lookup(u)
DoLookup(i, f) ==
  LET r == Lookup(f, TypeOf(decl, i), u) IN
  /\ res' = [NoRes EXCEPT !.op = "Lookup", !.idx = i, !.f = f,
                          !.status = r.status, !.val = r.val, !.found = r.found]
  /\ UNCHANGED <<decl, bundle, u, built, concVars>>

\* tagged.FieldOf(u)
DoFieldOf ==
  /\ res' = [NoRes EXCEPT !.op = "FieldOf", !.tok = FieldOf(u, decl.buf)]
  /\ UNCHANGED <<decl, bundle, u, built, concVars>>

\* u.Interface()
DoInterface ==
  LET r == Interface(u, decl) IN
  /\ res' = [NoRes EXCEPT !.op = "Interface", !.status = r.status,
                          !.val = r.val, !.typ = r.typ]
  /\ UNCHANGED <<decl, bundle, u, built, concVars>>

Next ==
  \/ DoFields
  \/ \E i \in Tracked(decl.n) :
       \E f \in Accessors(i), value \in Values(TypeOf(decl, i)),
          junk \in JunkFor(TypeOf(decl, i), decl.buf) :
         DoNew(i, f, value, junk)
  \/ \E i \in Tracked(decl.n) : \E f \in Accessors(i) : DoGet(i, f)
  \/ \E i \in Tracked(decl.n) : \E f \in Accessors(i) : DoLookup(i, f)
  \/ DoFieldOf
  \/ DoInterface

Spec == Init /\ [][Next]_vars

(***************************************************************************)
(* Concurrent callers.  Each caller p derives its own bundle held[p] with  *)
(* Fields, one alternative per step, then builds union values in the       *)
(* shared variable u and inspects them with Interface, which derives the   *)
(* live alternative again.  heap is the storage of `var values Values` of  *)
(* the calls in progress: values and Interface each declare a local, which *)
(* reflect.ValueOf(&values) moves to a fresh heap object.                  *)
(***************************************************************************)
Procs == 1..MaxProcs

\* declarations of the concurrent callers: the Float of the package
\* documentation with MaxAlts alternatives, float32 and float64 in turn, and
\* the same with one alternative replaced by a pointer, which load rejects
ConcDecls ==
  { [buf |-> 16, n |-> MaxAlts,
     typ |-> [i \in 0..(MaxAlts - 1) |->
                IF i = bad THEN "*int"
                ELSE IF i % 2 = 0 THEN "float32" ELSE "float64"]] :
      bad \in -1..(MaxAlts - 1) }

\* the value the concurrent callers store: the first non-zero byte pattern
ConcValue(t) == [k \in 1..SizeOf(t) |-> k % ByteMod]

\* variant: every call uses one package-level Values
AllocShared(p) == 0

\* address of the storage a call of caller p allocates for its local
\* `values` (src/tagged.go:239, 254): fresh for every call
Alloc(p) == p

InitConc ==
  /\ decl \in ConcDecls
  /\ bundle = ZeroValues(decl)
  /\ u = ZeroUnion(decl.buf)
  /\ built = [idx |-> -1, val |-> <<>>]
  /\ res = NoRes
  /\ heap = [a \in 0..MaxProcs |-> ZeroValues(decl)]
  /\ held = [p \in Procs |-> ZeroValues(decl)]
  /\ pc = [p \in Procs |-> "start"]
  /\ cur = [p \in Procs |-> 0]
  /\ at = [p \in Procs |-> 0]
  /\ arg = [p \in Procs |-> ZeroUnion(decl.buf)]

\* values, up to the loop (src/tagged.go:238-241)
FieldsBegin(p) ==
  /\ pc[p] = "start"
  /\ IF BufferKind(decl.buf) = "nil"
       THEN /\ pc' = [pc EXCEPT ![p] = "failed"]
            /\ UNCHANGED <<heap, cur, at>>
       ELSE /\ cur' = [cur EXCEPT ![p] = Alloc(p)]
            /\ heap' = [heap EXCEPT ![Alloc(p)] = ZeroValues(decl)]
            /\ at' = [at EXCEPT ![p] = 0]
            /\ pc' = [pc EXCEPT ![p] = "loop"]
  /\ UNCHANGED <<seqVars, held, arg>>

\* one iteration of the loop of values (src/tagged.go:242-247)
FieldsStep(p) ==
  /\ pc[p] = "loop"
  /\ at[p] < decl.n
  /\ LET i == at[p]
         ld == load(TypeOf(decl, i), Int16(i), BufferKind(decl.buf) = "Array",
                    decl.buf, OffsetofBuf(decl.buf))
     IN IF TooMany(i) \/ ld.status # "ok"
          THEN /\ pc' = [pc EXCEPT ![p] = "failed"]
               /\ UNCHANGED <<heap, at>>
          ELSE /\ heap' = [heap EXCEPT ![cur[p]][i] = ld.field]
               /\ at' = [at EXCEPT ![p] = i + 1]
               /\ UNCHANGED pc
  /\ UNCHANGED <<seqVars, held, cur, arg>>

\* return values (src/tagged.go:248): the caller keeps a copy
FieldsReturn(p) ==
  /\ pc[p] = "loop"
  /\ at[p] = decl.n
  /\ held' = [held EXCEPT ![p] = heap[cur[p]]]
  /\ pc' = [pc EXCEPT ![p] = "ready"]
  /\ UNCHANGED <<seqVars, heap, cur, at, arg>>

\* u = held[p].X.New(value)
ConcNew(p, i) ==
  /\ pc[p] = "ready"
  /\ LET r == New(held[p][i], TypeOf(decl, i), ConcValue(TypeOf(decl, i)),
                  decl.buf, 0)
     IN /\ u' = IF r.status = "ok" THEN r.un ELSE u
        /\ built' = IF r.status = "ok"
                      THEN [idx |-> i, val |-> ConcValue(TypeOf(decl, i))]
                      ELSE built
  /\ UNCHANGED <<decl, bundle, res, concVars>>

\* held[p].X.Lookup(u)
ConcLookup(p, i) ==
  /\ pc[p] = "ready"
  /\ LET r == Lookup(held[p][i], TypeOf(decl, i), u)
     IN res' = [NoRes EXCEPT !.op = "Lookup", !.idx = i, !.f = held[p][i],
                             !.status = r.status, !.val = r.val,
                             !.found = r.found]
  /\ UNCHANGED <<decl, bundle, u, built, concVars>>

\* u.Interface(), up to the load (src/tagged.go:253-258): the receiver is a
\* copy of u
InterfaceBegin(p) ==
  /\ pc[p] = "ready"
  /\ LET i == TagOf(u) IN
     IF BufferKind(decl.buf) = "nil" \/ i < 0 \/ i >= decl.n
       THEN /\ res' = [NoRes EXCEPT !.op = "Interface",
                                    !.status = "index out of range"]
            /\ UNCHANGED concVars
       ELSE /\ arg' = [arg EXCEPT ![p] = u]
            /\ cur' = [cur EXCEPT ![p] = Alloc(p)]
            /\ heap' = [heap EXCEPT ![Alloc(p)] = ZeroValues(decl)]
            /\ at' = [at EXCEPT ![p] = i]
            /\ pc' = [pc EXCEPT ![p] = "iload"]
            /\ UNCHANGED <<res, held>>
  /\ UNCHANGED <<decl, bundle, u, built>>

\* getter.load(...) (src/tagged.go:259)
InterfaceLoad(p) ==
  /\ pc[p] = "iload"
  /\ LET i == at[p]
         ld == load(TypeOf(decl, i), Int16(i), BufferKind(decl.buf) = "Array",
                    decl.buf, OffsetofBuf(decl.buf))
     IN IF ld.status # "ok"
          THEN /\ pc' = [pc EXCEPT ![p] = "ready"]
               /\ res' = [NoRes EXCEPT !.op = "Interface", !.status = ld.status]
               /\ UNCHANGED heap
          ELSE /\ heap' = [heap EXCEPT ![cur[p]][i] = ld.field]
               /\ pc' = [pc EXCEPT ![p] = "iget"]
               /\ UNCHANGED res
  /\ UNCHANGED <<decl, bundle, u, built, held, cur, at, arg>>

\* return getter.get(unsafe.Pointer(&union)) (src/tagged.go:260)
InterfaceGet(p) ==
  /\ pc[p] = "iget"
  /\ LET i == at[p]
         f == heap[cur[p]][i]
         r == Get(f, TypeOf(decl, i), arg[p])
     IN res' = [NoRes EXCEPT !.op = "Interface", !.idx = i, !.f = f,
                             !.status = r.status, !.val = r.val,
                             !.typ = IF r.status = "ok" THEN TypeOf(decl, i)
                                     ELSE "nil"]
  /\ pc' = [pc EXCEPT ![p] = "ready"]
  /\ UNCHANGED <<decl, bundle, u, built, heap, held, cur, at, arg>>

NextConc ==
  \/ \E p \in Procs : FieldsBegin(p)
  \/ \E p \in Procs : FieldsStep(p)
  \/ \E p \in Procs : FieldsReturn(p)
  \/ \E p \in Procs : \E i \in Tracked(decl.n) : ConcNew(p, i)
  \/ \E p \in Procs : \E i \in Tracked(decl.n) : ConcLookup(p, i)
  \/ \E p \in Procs : InterfaceBegin(p)
  \/ \E p \in Procs : InterfaceLoad(p)
  \/ \E p \in Procs : InterfaceGet(p)

SpecConc == InitConc /\ [][NextConc]_vars

(***************************************************************************)
(* Properties.                                                             *)
(***************************************************************************)
\* the accessors of the bundle that a derivation has produced
Derived(i) == bundle[i] # ZeroField

\* u was built by New through accessor built.idx of the derived bundle
Built == built.idx >= 0

\* whether the representation of a value of type t holds a pointer, by the
\* Go language: pointers, channels, maps, interfaces, slices, functions,
\* unsafe pointers and strings, and structs and non-empty arrays of them
RECURSIVE ContainsPointers(_)
ContainsPointers(t) ==
  CASE Kind(t) \in {"Ptr", "Chan", "Map", "Interface", "Slice", "Func",
                    "UnsafePointer", "String"} -> TRUE
    [] Kind(t) = "Struct" ->
         \E k \in 1..Len(StructFields(t)) : ContainsPointers(StructFields(t)[k])
    [] Kind(t) = "Array" -> ArrayLen(t) > 0 /\ ContainsPointers(Elem(t))
    [] OTHER -> FALSE

\* C1: round trip.  For the accessor A and value v of the New that built u,
\* A.Get(u) returns v without faulting; and a Get through that accessor
\* that has run returned v.
C1_RoundTrip ==
  Built =>
    /\ LET r == Get(bundle[built.idx], TypeOf(decl, built.idx), u)
       IN r.status = "ok" /\ r.val = built.val
    /\ (res.op = "Get" /\ res.idx = built.idx /\ res.f = bundle[built.idx])
         => (res.status = "ok" /\ res.val = built.val)

\* a Get through the constructing accessor has returned a non-zero value
\* stored inline
C1_Witness ==
  /\ Built
  /\ res.op = "Get" /\ res.idx = built.idx /\ res.f = bundle[built.idx]
  /\ res.status = "ok" /\ res.val = built.val
  /\ built.val # Zero(TypeOf(decl, built.idx))
  /\ ~bundle[built.idx].any

\* C2: the discriminant tracks the last constructor.  FieldOf(u) equals the
\* token of the accessor of the most recent New, differs from the token of
\* every other accessor of the bundle, and that accessor's Get returns the
\* most recent value.
C2_LastConstructor ==
  Built =>
    /\ FieldOf(u, decl.buf) = bundle[built.idx]
    /\ \A j \in Tracked(decl.n) \ {built.idx} : FieldOf(u, decl.buf) # bundle[j]
    /\ Get(bundle[built.idx], TypeOf(decl, built.idx), u).val = built.val

\* C3: mismatch safety.  For u built by accessor A, every other accessor B
\* of the bundle looks up (zero value, false) without faulting, and Lookup
\* finds exactly when the discriminants are equal.
C3_MismatchSafety ==
  Built =>
    \A j \in Tracked(decl.n) :
      LET r == Lookup(bundle[j], TypeOf(decl, j), u) IN
      /\ r.status = "ok"
      /\ r.found <=> (TagOf(u) = bundle[j].tag)
      /\ j # built.idx => (~r.found /\ r.val = Zero(TypeOf(decl, j)))

\* C4: Get on an initialized accessor faults with "wrong tag" exactly when
\* the live discriminant of the union differs from the accessor's; in every
\* other case it returns the value Lookup returns and does not fault.
C4_GetWrongTag ==
  /\ \A i \in Tracked(decl.n) :
       Derived(i) =>
         LET g == Get(bundle[i], TypeOf(decl, i), u)
             l == Lookup(bundle[i], TypeOf(decl, i), u)
         IN IF TagOf(u) # bundle[i].tag
              THEN g.status = "wrong tag"
              ELSE g.status = "ok" /\ l.status = "ok" /\ l.found /\ g.val = l.val
  /\ (res.op = "Get" /\ res.f # ZeroField)
       => /\ (res.status = "wrong tag") <=> (TagOf(u) # res.f.tag)
          /\ res.status \in {"wrong tag", "ok"}
          /\ res.status = "ok"
               => res.val = Lookup(res.f, TypeOf(decl, res.idx), u).val

\* a Get through an initialized accessor has faulted with "wrong tag" on a
\* union built through another accessor
C4_Witness ==
  /\ Built
  /\ res.op = "Get" /\ res.f # ZeroField /\ res.idx # built.idx
  /\ res.status = "wrong tag"

\* C5: declaration faults land at derivation time.  Over a fixed buffer
\* Fields fails when an alternative's type contains pointers (through
\* structs and arrays at any depth) or is larger than the buffer, so every
\* accessor of a derived bundle is inline, pointer-free and fits.
C5_DeclarationFaults ==
  (res.op = "Fields" /\ decl.buf # AnyBuf) =>
    /\ (\E i \in Tracked(decl.n) :
          \/ ContainsPointers(TypeOf(decl, i))
          \/ SizeOf(TypeOf(decl, i)) > decl.buf) => res.status # "ok"
    /\ res.status = "ok" =>
         \A i \in Tracked(decl.n) :
           /\ ~bundle[i].any
           /\ ~ContainsPointers(TypeOf(decl, i))
           /\ SizeOf(TypeOf(decl, i)) <= decl.buf

\* C6: discriminant space.  Fields fails for more than 65,535 alternatives;
\* otherwise alternative i receives discriminant i, within 0..65535 and
\* distinct from every other alternative's.
C6_DiscriminantSpace ==
  (res.op = "Fields" /\ decl.buf # AnyBuf) =>
    /\ decl.n > MaxFields => res.status # "ok"
    /\ res.status = "ok" =>
         \A i \in Tracked(decl.n) :
           /\ bundle[i].tag = i
           /\ bundle[i].tag \in 0..MaxFields
           /\ \A j \in Tracked(decl.n) \ {i} : bundle[j].tag # bundle[i].tag

\* C7: unbounded buffer.  With Buf = any Fields succeeds for alternatives
\* of any shape and marks every descriptor boxed.
C7_UnboundedBuffer ==
  (res.op = "Fields" /\ decl.buf = AnyBuf) =>
    /\ res.status = "ok"
    /\ \A i \in Tracked(decl.n) : bundle[i].any /\ bundle[i].set # 0

\* C8: uninitialized accessor.  New, Get and Lookup on the zero-value
\* accessor fault with "must be initialized before use", whatever the
\* union's discriminant; an accessor of a derived bundle is never rejected
\* as uninitialized, and a successful derivation initializes every accessor.
C8_Uninitialized ==
  /\ (res.op \in {"New", "Get", "Lookup"} /\ res.f = ZeroField)
       => res.status = "uninitialized"
  /\ (res.op \in {"New", "Get", "Lookup"} /\ res.f # ZeroField)
       => res.status # "uninitialized"
  /\ (res.op = "Fields" /\ res.status = "ok")
       => \A i \in Tracked(decl.n) : Derived(i)
  /\ \A i \in Tracked(decl.n) :
       /\ Get(ZeroField, TypeOf(decl, i), u).status = "uninitialized"
       /\ Lookup(ZeroField, TypeOf(decl, i), u).status = "uninitialized"
       /\ Derived(i)
            => Lookup(bundle[i], TypeOf(decl, i), u).status # "uninitialized"

\* a Get through a zero-value accessor has faulted as uninitialized on a
\* union whose discriminant is not that of the zero value, beside a derived
\* bundle
C8_Witness ==
  /\ Built /\ TagOf(u) # 0
  /\ res.op = "Get" /\ res.f = ZeroField /\ res.status = "uninitialized"
  /\ Derived(res.idx)

\* C9: dynamic extraction.  Interface() of A.New(v) returns v with the
\* dynamic type of A's alternative, found by the live discriminant alone.
C9_Interface ==
  Built =>
    LET r == Interface(u, decl) IN
    /\ r.status = "ok"
    /\ r.typ = TypeOf(decl, built.idx)
    /\ r.val = built.val

\* C10: derivation is self-contained.  Under every interleaving, a bundle a
\* caller holds after Fields returned equals the bundle of a solitary
\* derivation and stays so while other calls run, and the descriptor a
\* re-derivation inside Interface used is the one a solitary derivation
\* gives that alternative.
C10_SelfContained ==
  /\ \A p \in Procs :
       pc[p] \in {"ready", "iload", "iget"} =>
         /\ Fields(decl).status = "ok"
         /\ held[p] = Fields(decl).fields
  /\ (res.op = "Interface" /\ res.idx >= 0) =>
       /\ res.f = Fields(decl).fields[res.idx]
       /\ res.status = "ok"

\* a caller holds a derived bundle while another caller is inside the loop
\* of its own derivation, past its first alternative
C10_Witness ==
  \E p, q \in Procs :
    /\ p # q
    /\ pc[p] = "ready" /\ held[p] = Fields(decl).fields
    /\ pc[q] = "loop" /\ at[q] >= 1

====
